---- MODULE Spec2Model ----
(***************************************************************************)
(* Model of ipv6_tester.py (class IPv6Tester): one listener process        *)
(* (main -> run_server -> handle_client per accepted connection), one      *)
(* connector process (main -> run_client) and a few foreign peers that     *)
(* speak the line protocol by hand.  Every action is the code that runs    *)
(* between two suspension points (await) of an asyncio task.               *)
(*                                                                         *)
(* Specifications:                                                         *)
(*   Spec          a listener and a connector on the same endpoint         *)
(*   SpecFair      Spec, with every ready task step eventually taken       *)
(*   SpecListener  a listener and foreign peers (text and non-UTF-8 lines) *)
(*   SpecLines     a listener on any address and peers that send lines of  *)
(*                 text, blank lines and an unended fragment               *)
(*   SpecCrowd     a listener and MAX_CLIENTS + 1 peers that stay          *)
(*   SpecMain      main on any short command line, up to the role's start  *)
(***************************************************************************)
EXTENDS Integers, Sequences, FiniteSets, TLC

(* ------------------------------ bounds -------------------------------- *)
\* number of foreign (hand-driven) peers besides the connector
NumRaw == 2
\* number of chunks the foreign peers send in a run, all together
MaxRawSends == 1
\* number of command-line arguments given to main, at most
MaxArgs == 3

(* ------------------------- program constants -------------------------- *)
\* MAX_CLIENTS = 10
MAX_CLIENTS == 10
\* DEFAULT_IPV6_ADDRESS = "::1"
DEFAULT_IPV6_ADDRESS == "::1"
\* a loop that runs once more: range(21)
ITERATIONS_one_more == 20 + 1

\* for i in range(20)
ITERATIONS == 20
\* if i < 19
LAST_PAUSE == 19

\* connection 0 is the one opened by run_client; 1..NumRaw are foreign peers
CONNECTOR == 0
Raw == 1..NumRaw
Conns == {CONNECTOR} \cup Raw
\* one peer more than the listener announces it will serve at a time
Crowd == 1..(MAX_CLIENTS + 1)

(* ------------------------------ bytes --------------------------------- *)
\* "H" the greeting body, "R" the fixed text and the timestamp of a
\* response, "a" and "b" letters, " " a blank, "x" a byte that is not valid
\* UTF-8, "\n" the line terminator
NL == "\n"
Greeting == <<"H", NL>>

\* a response that names the default address, whatever the listener was given
Response_default(address) == <<"R", DEFAULT_IPV6_ADDRESS, NL>>

\* line 104: "Server received your message at {timestamp} at address
\* {server_address}\n"; the message and the peer's address are not part of it
Response(address) == <<"R", address, NL>>

\* what a foreign peer sends in one write: a line of text, or a line holding
\* a byte that is not UTF-8
RawChunks == { <<"a", NL>>, <<"x", NL>> }
\* lines of text a peer may send: the empty line, a line of blanks, a line
\* with a letter; and a fragment that no newline ends
LineChunks == { <<NL>>, <<" ", NL>>, <<"a", NL>>, <<"b">> }

(* --------------------------- command line ----------------------------- *)
\* the addresses a listener is started on
Addresses == {DEFAULT_IPV6_ADDRESS, "fe80::2"}
\* the words a command line is made of
ArgTokens == {"server", "client", "bogus", "8080", "notaport"} \cup Addresses

RECURSIVE SeqsUpTo(_, _)
\* the sequences over S of length n at most
SeqsUpTo(S, n) ==
    IF n = 0 THEN { <<>> }
    ELSE LET shorter == SeqsUpTo(S, n - 1)
         IN shorter \cup { Append(q, t) : q \in shorter, t \in S }

\* int(s) returns: s is a decimal numeral; otherwise it raises ValueError
IntParses(s) == s \in {"8080"}

\* line 176: sys.argv[2] if len(sys.argv) > 2 else DEFAULT_IPV6_ADDRESS
AddressArg(args) == IF Len(args) > 1 THEN args[2] ELSE DEFAULT_IPV6_ADDRESS

VARIABLES
    srv,        \* listener process: "init","serving","closing","cancelling","exited"
    srvExit,    \* exit status of the listener process, -1 while it runs
    srvLog,     \* listener-level log: [started, error, shutdown] counters
    spc,        \* per connection: position of its handle_client task
    peername,   \* per connection: writer.get_extra_info('peername') is set
    sreason,    \* per connection: why handle_client left its loop
    sclose,     \* per connection: number of writer.close() calls by handle_client
    slog,       \* per connection: [connected, received, responded, disconnected, error]
    sdata,      \* per connection: the last result of reader.readline() in handle_client
    smsg,       \* per connection: the last message handle_client logged as received
    swrote,     \* per connection: the last bytes handle_client gave to writer.write
    link,       \* per connection: "none","up","reset"
    c2s,        \* per connection: bytes from the peer not yet read by the session
    c2sFin,     \* per connection: the peer has closed its end
    s2c,        \* per connection: bytes from the session not yet read by the peer
    s2cFin,     \* per connection: the session has closed its end
    cpc,        \* connector process: position of run_client
    i,          \* connector: loop variable of run_client
    creason,    \* connector: why the conversation ended
    cclose,     \* connector: number of writer.close() calls
    cpause,     \* connector: number of asyncio.sleep(1) calls
    clog,       \* connector log: [connected, sent, response, error, shutdown]
    cliExit,    \* exit status of the connector process, -1 while it runs
    rawSent,    \* number of chunks the foreign peers have sent
    argv,       \* sys.argv[1:] of the invocation of main
    mpc,        \* main: "main","usage","traceback","run_server","run_client"
    mexit,      \* exit status set by main before a role runs, -1 when none
    server_address  \* the address run_server was given (bound by the lambda, line 121)

srvVars  == <<srv, srvExit, srvLog>>
sessVars == <<spc, peername, sreason, sclose, slog, sdata, smsg, swrote>>
netVars  == <<link, c2s, c2sFin, s2c, s2cFin>>
cliVars  == <<cpc, i, creason, cclose, cpause, clog, cliExit>>
mainVars == <<argv, mpc, mexit, server_address>>
vars     == <<srvVars, sessVars, netVars, cliVars, rawSent, mainVars>>

NoSessionLog == [connected |-> 0, received |-> 0, responded |-> 0,
                 disconnected |-> 0, error |-> 0]

\* no role has run yet; S is the set of connections that may be made
InitRoles(S) ==
    /\ srv = "init" /\ srvExit = -1
    /\ srvLog = [started |-> 0, error |-> 0, shutdown |-> 0]
    /\ spc = [c \in S |-> "none"]
    /\ peername = [c \in S |-> FALSE]
    /\ sreason = [c \in S |-> "none"]
    /\ sclose = [c \in S |-> 0]
    /\ slog = [c \in S |-> NoSessionLog]
    /\ sdata = [c \in S |-> <<>>]
    /\ smsg = [c \in S |-> <<>>]
    /\ swrote = [c \in S |-> <<>>]
    /\ link = [c \in S |-> "none"]
    /\ c2s = [c \in S |-> <<>>]
    /\ c2sFin = [c \in S |-> FALSE]
    /\ s2c = [c \in S |-> <<>>]
    /\ s2cFin = [c \in S |-> FALSE]
    /\ cpc = "init" /\ i = 0 /\ creason = "none" /\ cclose = 0 /\ cpause = 0
    /\ clog = [connected |-> 0, sent |-> 0, response |-> 0, error |-> 0, shutdown |-> 0]
    /\ cliExit = -1
    /\ rawSent = 0

\* main has taken a valid command line "server [address]" and is about to
\* call asyncio.run(self.run_server(ipv6_address, port))
InitServer(args) ==
    /\ argv = args
    /\ mpc = "run_server"
    /\ mexit = -1
    /\ server_address = AddressArg(args)

\* the listener was started as "server" and the connector as "client", both
\* on the default endpoint
Init == InitRoles(Conns) /\ InitServer(<<"server">>)

(* ------------------------- stream primitives -------------------------- *)
RECURSIVE IndexOf(_, _, _)
\* position of the first b in s at or after k, 0 when there is none
IndexOf(s, b, k) ==
    IF k > Len(s) THEN 0
    ELSE IF s[k] = b THEN k ELSE IndexOf(s, b, k + 1)

\* a reader that never reports the end of the stream
CanReadLine_no_eof(buf, fin) == IndexOf(buf, NL, 1) > 0

\* StreamReader.readline has a result: a whole line is buffered, or the
\* stream is at its end
CanReadLine(buf, fin) == IndexOf(buf, NL, 1) > 0 \/ fin

\* a readline that hands out whole lines only and drops an unended tail
ReadLine_whole_lines(buf, fin) ==
    LET k == IndexOf(buf, NL, 1)
    IN IF k > 0 THEN SubSeq(buf, 1, k) ELSE <<>>

\* the bytes StreamReader.readline returns: up to and including the first
\* newline, or whatever is left at end of stream (empty at a clean end)
ReadLine(buf, fin) ==
    LET k == IndexOf(buf, NL, 1)
    IN IF k > 0 THEN SubSeq(buf, 1, k) ELSE buf

\* what stays buffered after that readline
AfterReadLine(buf, fin) ==
    LET k == IndexOf(buf, NL, 1)
    IN IF k > 0 THEN SubSeq(buf, k + 1, Len(buf)) ELSE <<>>

\* bytes.decode(): raises UnicodeDecodeError on a byte that is not UTF-8
Decodes(data) == \A k \in 1..Len(data) : data[k] # "x"

IsSpace(b) == b \in {" ", NL}

RECURSIVE LStrip(_)
LStrip(s) == IF s # <<>> /\ IsSpace(Head(s)) THEN LStrip(Tail(s)) ELSE s

RECURSIVE RStrip(_)
RStrip(s) ==
    IF s # <<>> /\ IsSpace(s[Len(s)]) THEN RStrip(SubSeq(s, 1, Len(s) - 1)) ELSE s

\* str.strip()
Strip(s) == RStrip(LStrip(s))

\* transport.write towards a peer: the bytes are queued for the peer unless
\* the peer has already closed its end (the kernel discards them)
Deliver(buf, peerClosed, data) == IF peerClosed THEN buf ELSE buf \o data

(* ------------------------------ listener ------------------------------ *)
\* the event loop of the listener process is running tasks
Running == {"serving", "closing"}

\* the peer of c takes what is written to it off the stream at once: a
\* foreign peer discards the responses, a peer that has closed never reads
PeerDrops(c) == c \in Raw \/ c2sFin[c]

\* run_server up to serve_forever: asyncio.start_server binds the endpoint;
\* a failure is caught by run_server's except, logged, and run_server
\* returns, so asyncio.run and main return normally
run_server_start ==
    /\ srv = "init"
    /\ \E bound \in BOOLEAN :
         IF bound
         THEN /\ srv' = "serving"
              /\ srvLog' = [srvLog EXCEPT !.started = @ + 1]
              /\ srvExit' = srvExit
         ELSE /\ srv' = "exited"
              /\ srvLog' = [srvLog EXCEPT !.error = @ + 1]
              /\ srvExit' = 0
    /\ UNCHANGED <<sessVars, netVars, cliVars, rawSent, mainVars>>

\* an accept loop that waits for the session it launched before it accepts
\* again
serve_forever_accept_serialized(c) ==
    /\ srv = "serving"
    /\ spc[c] = "none"
    /\ \A d \in DOMAIN spc : spc[d] \in {"none", "done", "failed"}
    /\ link[c] \in {"up", "reset"}
    /\ spc' = [spc EXCEPT ![c] = "start"]
    /\ peername' = [peername EXCEPT ![c] = (link[c] = "up")]
    /\ UNCHANGED <<srvVars, sreason, sclose, slog, sdata, smsg, swrote, netVars, cliVars, rawSent, mainVars>>

\* serve_forever accepts a connection: the transport records the peer name
\* (None when the connection is already reset) and the task running
\* handle_client is created; its body has not run yet
serve_forever_accept(c) ==
    /\ srv = "serving"
    /\ spc[c] = "none"
    /\ link[c] \in {"up", "reset"}
    /\ spc' = [spc EXCEPT ![c] = "start"]
    /\ peername' = [peername EXCEPT ![c] = (link[c] = "up")]
    /\ UNCHANGED <<srvVars, sreason, sclose, slog, sdata, smsg, swrote, netVars, cliVars, rawSent, mainVars>>

(* --------------------------- handle_client ---------------------------- *)
\* the test for the end of the stream left out
IsEof_never(data) == FALSE

\* line 95: if not data
IsEof(data) == data = <<>>

\* the finally block: writer.close(), then await writer.wait_closed()
handle_client_finally(c) ==
    /\ sclose' = [sclose EXCEPT ![c] = @ + 1]
    /\ s2cFin' = [s2cFin EXCEPT ![c] = TRUE]
    /\ spc' = [spc EXCEPT ![c] = "wait_closed"]

\* an except block that also shuts the listener down
handle_client_except_stops_listener(c, why) ==
    /\ slog' = [slog EXCEPT ![c].error = @ + 1]
    /\ sreason' = [sreason EXCEPT ![c] = why]
    /\ srv' = "closing"
    /\ handle_client_finally(c)

\* the except block, then the finally block: the exception is logged and
\* goes no further, so the listener is not touched
handle_client_except(c, why) ==
    /\ slog' = [slog EXCEPT ![c].error = @ + 1]
    /\ sreason' = [sreason EXCEPT ![c] = why]
    /\ srv' = srv
    /\ handle_client_finally(c)

\* lines 87-89, before the try: peername[0] raises TypeError when the peer
\* name is None, and the task ends with that exception
handle_client_start(c) ==
    /\ srv \in Running
    /\ spc[c] = "start"
    /\ IF peername[c]
       THEN /\ slog' = [slog EXCEPT ![c].connected = @ + 1]
            /\ spc' = [spc EXCEPT ![c] = "read"]
            /\ sreason' = sreason
       ELSE /\ spc' = [spc EXCEPT ![c] = "failed"]
            /\ sreason' = [sreason EXCEPT ![c] = "start_failure"]
            /\ slog' = slog
    /\ UNCHANGED <<srvVars, peername, sclose, sdata, smsg, swrote, netVars, cliVars, rawSent, mainVars>>

\* readline returned: lines 94-106 run up to await writer.drain()
handle_client_readline(c) ==
    /\ srv \in Running
    /\ spc[c] = "read"
    /\ link[c] = "up"
    /\ CanReadLine(c2s[c], c2sFin[c])
    /\ LET data == ReadLine(c2s[c], c2sFin[c])
       IN /\ c2s' = [c2s EXCEPT ![c] = AfterReadLine(@, c2sFin[c])]
          /\ sdata' = [sdata EXCEPT ![c] = data]
          /\ IF IsEof(data)
             THEN /\ slog' = [slog EXCEPT ![c].disconnected = @ + 1]
                  /\ sreason' = [sreason EXCEPT ![c] = "eof"]
                  /\ handle_client_finally(c)
                  /\ UNCHANGED <<s2c, smsg, swrote, srv>>
             ELSE IF ~Decodes(data)
             THEN /\ handle_client_except(c, "decode")
                  /\ UNCHANGED <<s2c, smsg, swrote>>
             ELSE /\ smsg' = [smsg EXCEPT ![c] = Strip(data)]
                  /\ slog' = [slog EXCEPT ![c].received = @ + 1,
                                          ![c].responded = @ + 1]
                  /\ swrote' = [swrote EXCEPT ![c] = Response(server_address)]
                  /\ s2c' = [s2c EXCEPT ![c] =
                               Deliver(@, PeerDrops(c), Response(server_address))]
                  /\ spc' = [spc EXCEPT ![c] = "drain"]
                  /\ UNCHANGED <<sreason, sclose, s2cFin, srv>>
    /\ UNCHANGED <<srvExit, srvLog, peername, link, c2sFin, cliVars, rawSent, mainVars>>

\* readline raised (connection lost)
handle_client_readline_error(c) ==
    /\ srv \in Running
    /\ spc[c] = "read"
    /\ link[c] = "reset"
    /\ handle_client_except(c, "ioerror")
    /\ UNCHANGED <<srvExit, srvLog, peername, sdata, smsg, swrote, link, c2s, c2sFin, s2c,
                 cliVars, rawSent, mainVars>>

\* a loop without the pause: the next read follows the flush at once
handle_client_drain_no_pause(c) ==
    /\ srv \in Running
    /\ spc[c] = "drain"
    /\ IF link[c] = "up"
       THEN /\ spc' = [spc EXCEPT ![c] = "read"]
            /\ UNCHANGED <<sreason, sclose, slog, s2cFin, srv>>
       ELSE handle_client_except(c, "ioerror")
    /\ UNCHANGED <<srvExit, srvLog, peername, sdata, smsg, swrote, link, c2s, c2sFin, s2c,
                   cliVars, rawSent, mainVars>>

\* await writer.drain() returned, or raised because the connection is lost
handle_client_drain(c) ==
    /\ srv \in Running
    /\ spc[c] = "drain"
    /\ IF link[c] = "up"
       THEN /\ spc' = [spc EXCEPT ![c] = "sleep"]
            /\ UNCHANGED <<sreason, sclose, slog, s2cFin, srv>>
       ELSE handle_client_except(c, "ioerror")
    /\ UNCHANGED <<srvExit, srvLog, peername, sdata, smsg, swrote, link, c2s, c2sFin, s2c,
                 cliVars, rawSent, mainVars>>

\* a loop that is left after its first response
handle_client_sleep_once(c) ==
    /\ srv \in Running
    /\ spc[c] = "sleep"
    /\ spc' = [spc EXCEPT ![c] = "wait_closed"]
    /\ UNCHANGED <<srvVars, peername, sreason, sclose, slog, sdata, smsg, swrote,
                 netVars, cliVars, rawSent, mainVars>>

\* a session that, its pause over, writes a response again before it reads
handle_client_sleep_respond(c) ==
    /\ srv \in Running
    /\ spc[c] = "sleep"
    /\ slog' = [slog EXCEPT ![c].responded = @ + 1]
    /\ swrote' = [swrote EXCEPT ![c] = Response(server_address)]
    /\ s2c' = [s2c EXCEPT ![c] = Deliver(@, PeerDrops(c), Response(server_address))]
    /\ spc' = [spc EXCEPT ![c] = "drain"]
    /\ UNCHANGED <<srvVars, peername, sreason, sclose, sdata, smsg, link, c2s, c2sFin,
                   s2cFin, cliVars, rawSent, mainVars>>

\* await asyncio.sleep(1) returned
handle_client_sleep(c) ==
    /\ srv \in Running
    /\ spc[c] = "sleep"
    /\ spc' = [spc EXCEPT ![c] = "read"]
    /\ UNCHANGED <<srvVars, peername, sreason, sclose, slog, sdata, smsg, swrote,
                 netVars, cliVars, rawSent, mainVars>>

\* await writer.wait_closed() returned: handle_client is over
handle_client_wait_closed(c) ==
    /\ srv \in Running \cup {"cancelling"}
    /\ spc[c] = "wait_closed"
    /\ spc' = [spc EXCEPT ![c] = "done"]
    /\ UNCHANGED <<srvVars, peername, sreason, sclose, slog, sdata, smsg, swrote,
                 netVars, cliVars, rawSent, mainVars>>

\* the task is cancelled: CancelledError is raised at the await it is
\* suspended in, passes the except clause and runs the finally block; a task
\* whose body has not started never runs it
handle_client_cancelled(c) ==
    /\ srv = "cancelling"
    /\ spc[c] \in {"start", "read", "drain", "sleep"}
    /\ IF spc[c] = "start"
       THEN /\ spc' = [spc EXCEPT ![c] = "done"]
            /\ sreason' = [sreason EXCEPT ![c] = "never_started"]
            /\ UNCHANGED <<sclose, s2cFin>>
       ELSE /\ sreason' = [sreason EXCEPT ![c] = "cancelled"]
            /\ handle_client_finally(c)
    /\ UNCHANGED <<srvVars, peername, slog, sdata, smsg, swrote, link, c2s, c2sFin, s2c,
                 cliVars, rawSent, mainVars>>

(* ----------------------- listener: interrupt -------------------------- *)
SessionOver(c) == spc[c] \in {"none", "done", "failed"}

\* SIGINT in the listener process: asyncio.run cancels the main task;
\* serve_forever and "async with server" close the listening socket
main_interrupt_server ==
    /\ srv = "serving"
    /\ srv' = "closing"
    /\ UNCHANGED <<srvExit, srvLog, sessVars, netVars, cliVars, rawSent, mainVars>>

\* asyncio.run, the main task being over, cancels every remaining task
run_cancel_all_tasks ==
    /\ srv = "closing"
    /\ srv' = "cancelling"
    /\ UNCHANGED <<srvExit, srvLog, sessVars, netVars, cliVars, rawSent, mainVars>>

\* main, except KeyboardInterrupt: logs "Shutting down..." and returns
main_server_exit ==
    /\ srv = "cancelling"
    /\ \A c \in Conns : SessionOver(c)
    /\ srv' = "exited"
    /\ srvExit' = 0
    /\ srvLog' = [srvLog EXCEPT !.shutdown = @ + 1]
    /\ UNCHANGED <<sessVars, netVars, cliVars, rawSent, mainVars>>

(* ----------------------------- run_client ----------------------------- *)
\* a pause after every iteration, the last one included
NeedsPause_every(k) == k < ITERATIONS

\* line 159: if i < 19
NeedsPause(k) == k < LAST_PAUSE

\* a finally block that does not close the writer
run_client_finally_leak(why) ==
    /\ creason' = why
    /\ UNCHANGED <<cclose, c2sFin>>
    /\ cpc' = "wait_closed"

\* the finally block of run_client: writer.close(), then
\* await writer.wait_closed()
run_client_finally(why) ==
    /\ creason' = why
    /\ cclose' = cclose + 1
    /\ c2sFin' = [c2sFin EXCEPT ![CONNECTOR] = TRUE]
    /\ cpc' = "wait_closed"

\* the loop header with the next value k of i, and lines 148-151 up to
\* await writer.drain(); past the last value the loop is left
run_client_iterate(k) ==
    IF k < ITERATIONS
    THEN /\ i' = k
         /\ c2s' = [c2s EXCEPT ![CONNECTOR] = Deliver(@, s2cFin[CONNECTOR], Greeting)]
         /\ cpc' = "drain"
         /\ UNCHANGED <<creason, cclose, c2sFin>>
    ELSE /\ run_client_finally("completed")
         /\ UNCHANGED <<i, c2s>>

\* await asyncio.open_connection: the connection is established when the
\* listener listens on a valid endpoint; otherwise (or on any network
\* failure) it raises, run_client logs "Client error" and returns, and main
\* returns normally
run_client_connect ==
    /\ cpc = "init"
    /\ \E reachable \in BOOLEAN :
         IF reachable /\ srv = "serving"
         THEN /\ link' = [link EXCEPT ![CONNECTOR] = "up"]
              /\ clog' = [clog EXCEPT !.connected = @ + 1]
              /\ run_client_iterate(0)
              /\ cliExit' = cliExit
         ELSE /\ clog' = [clog EXCEPT !.error = @ + 1]
              /\ creason' = "connect_failed"
              /\ cpc' = "exited"
              /\ cliExit' = 0
              /\ UNCHANGED <<i, cclose, link, c2s, c2sFin>>
    /\ UNCHANGED <<srvVars, sessVars, s2c, s2cFin, cpause, rawSent, mainVars>>

\* a loop that sends its next greeting without reading the response
run_client_drain_no_read ==
    /\ cpc = "drain"
    /\ IF link[CONNECTOR] = "up"
       THEN /\ clog' = [clog EXCEPT !.sent = @ + 1]
            /\ run_client_iterate(i + 1)
       ELSE /\ run_client_finally("ioerror")
            /\ UNCHANGED <<clog, i, c2s>>
    /\ UNCHANGED <<srvVars, sessVars, link, s2c, s2cFin, cpause, cliExit, rawSent, mainVars>>

\* await writer.drain() returned (line 152 logs what was sent), or raised
run_client_drain ==
    /\ cpc = "drain"
    /\ IF link[CONNECTOR] = "up"
       THEN /\ clog' = [clog EXCEPT !.sent = @ + 1]
            /\ cpc' = "read"
            /\ UNCHANGED <<creason, cclose, c2sFin>>
       ELSE /\ run_client_finally("ioerror")
            /\ clog' = clog
    /\ UNCHANGED <<srvVars, sessVars, link, c2s, s2c, s2cFin, i, cpause, cliExit, rawSent, mainVars>>

\* await reader.readline() returned: lines 156-160, and the next iteration
\* when there is no pause
run_client_readline ==
    /\ cpc = "read"
    /\ link[CONNECTOR] = "up"
    /\ CanReadLine(s2c[CONNECTOR], s2cFin[CONNECTOR])
    /\ LET response == ReadLine(s2c[CONNECTOR], s2cFin[CONNECTOR])
       IN /\ s2c' = [s2c EXCEPT ![CONNECTOR] = AfterReadLine(@, s2cFin[CONNECTOR])]
          /\ IF ~Decodes(response)
             THEN /\ run_client_finally("decode")
                  /\ UNCHANGED <<clog, cpause, i, c2s>>
             ELSE /\ clog' = [clog EXCEPT !.response = @ + 1]
                  /\ IF NeedsPause(i)
                     THEN /\ cpause' = cpause + 1
                          /\ cpc' = "sleep"
                          /\ UNCHANGED <<i, c2s, creason, cclose, c2sFin>>
                     ELSE /\ run_client_iterate(i + 1)
                          /\ cpause' = cpause
    /\ UNCHANGED <<srvVars, sessVars, link, s2cFin, cliExit, rawSent, mainVars>>

\* await reader.readline() raised (connection lost)
run_client_readline_error ==
    /\ cpc = "read"
    /\ link[CONNECTOR] = "reset"
    /\ run_client_finally("ioerror")
    /\ UNCHANGED <<srvVars, sessVars, link, c2s, s2c, s2cFin, i, cpause, clog, cliExit, rawSent, mainVars>>

\* await asyncio.sleep(1) returned
run_client_sleep ==
    /\ cpc = "sleep"
    /\ run_client_iterate(i + 1)
    /\ UNCHANGED <<srvVars, sessVars, link, s2c, s2cFin, cpause, clog, cliExit, rawSent, mainVars>>

\* SIGINT in the connector process during the conversation: the task is
\* cancelled at the await it is suspended in and the finally block runs
main_interrupt_client ==
    /\ cpc \in {"drain", "read", "sleep"}
    /\ run_client_finally("interrupted")
    /\ UNCHANGED <<srvVars, sessVars, link, c2s, s2c, s2cFin, i, cpause, clog, cliExit, rawSent, mainVars>>

\* await writer.wait_closed() returned: an exception of the conversation
\* reaches run_client's except (line 167), a cancellation reaches main's
\* except KeyboardInterrupt; in every case main returns normally
run_client_wait_closed ==
    /\ cpc = "wait_closed"
    /\ clog' = [clog EXCEPT
                  !.error = IF creason \in {"ioerror", "decode"} THEN @ + 1 ELSE @,
                  !.shutdown = IF creason = "interrupted" THEN @ + 1 ELSE @]
    /\ cpc' = "exited"
    /\ cliExit' = 0
    /\ UNCHANGED <<srvVars, sessVars, netVars, i, creason, cclose, cpause, rawSent, mainVars>>

(* ------------------------ foreign peers, network ---------------------- *)
\* a foreign peer connects to the listening endpoint
raw_connect(c) ==
    /\ srv = "serving"
    /\ link[c] = "none"
    /\ link' = [link EXCEPT ![c] = "up"]
    /\ UNCHANGED <<srvVars, sessVars, c2s, c2sFin, s2c, s2cFin, cliVars, rawSent, mainVars>>

\* a foreign peer writes some bytes
raw_send(c, chunk) ==
    /\ link[c] = "up"
    /\ ~c2sFin[c]
    /\ rawSent < MaxRawSends
    /\ rawSent' = rawSent + 1
    /\ c2s' = [c2s EXCEPT ![c] = Deliver(@, s2cFin[c], chunk)]
    /\ UNCHANGED <<srvVars, sessVars, link, c2sFin, s2c, s2cFin, cliVars, mainVars>>

\* a foreign peer closes its connection
raw_close(c) ==
    /\ link[c] = "up"
    /\ ~c2sFin[c]
    /\ c2sFin' = [c2sFin EXCEPT ![c] = TRUE]
    /\ UNCHANGED <<srvVars, sessVars, link, c2s, s2c, s2cFin, cliVars, rawSent, mainVars>>

\* the connection is lost (reset by the network or by a peer's kernel)
net_reset(c) ==
    /\ link[c] = "up"
    /\ ~(c2sFin[c] /\ s2cFin[c])
    /\ link' = [link EXCEPT ![c] = "reset"]
    /\ UNCHANGED <<srvVars, sessVars, c2s, c2sFin, s2c, s2cFin, cliVars, rawSent, mainVars>>

(* --------------------------- specification ---------------------------- *)
\* the steps of the listener process
ListenerStep ==
    \/ run_server_start
    \/ \E c \in Conns : serve_forever_accept(c)
    \/ \E c \in Conns : handle_client_start(c)
    \/ \E c \in Conns : handle_client_readline(c)
    \/ \E c \in Conns : handle_client_readline_error(c)
    \/ \E c \in Conns : handle_client_drain(c)
    \/ \E c \in Conns : handle_client_sleep(c)
    \/ \E c \in Conns : handle_client_wait_closed(c)
    \/ \E c \in Conns : handle_client_cancelled(c)
    \/ main_interrupt_server
    \/ run_cancel_all_tasks
    \/ main_server_exit

\* the steps of the connector process
ConnectorStep ==
    \/ run_client_connect
    \/ run_client_drain
    \/ run_client_readline
    \/ run_client_readline_error
    \/ run_client_sleep
    \/ main_interrupt_client
    \/ run_client_wait_closed

\* the steps of the foreign peers
RawStep ==
    \/ \E c \in Raw : raw_connect(c)
    \/ \E c \in Raw : \E chunk \in RawChunks : raw_send(c, chunk)
    \/ \E c \in Raw : raw_close(c)

\* a listener and a connector on the same endpoint
Next ==
    \/ ListenerStep
    \/ ConnectorStep
    \/ net_reset(CONNECTOR)

Spec == Init /\ [][Next]_vars

\* the steps the event loop of the connector process takes by itself: a
\* task that can run is run; an interrupt is the user's
ConnectorRuns ==
    \/ run_client_connect
    \/ run_client_drain
    \/ run_client_readline
    \/ run_client_readline_error
    \/ run_client_sleep
    \/ run_client_wait_closed

\* the steps the event loop of the listener process takes by itself for
\* connection c
SessionRuns(c) ==
    \/ serve_forever_accept(c)
    \/ handle_client_start(c)
    \/ handle_client_readline(c)
    \/ handle_client_readline_error(c)
    \/ handle_client_drain(c)
    \/ handle_client_sleep(c)
    \/ handle_client_wait_closed(c)
    \/ handle_client_cancelled(c)

\* asyncio runs every task that is ready: the runs in which neither event
\* loop leaves a ready step of a task undone for ever.  Interrupts and
\* network failures may or may not happen.
SpecFair ==
    /\ Init /\ [][Next]_vars
    /\ WF_vars(ConnectorRuns)
    /\ \A c \in Conns : WF_vars(SessionRuns(c))
    /\ WF_vars(run_server_start \/ run_cancel_all_tasks \/ main_server_exit)

\* a listener and foreign peers
NextListener ==
    \/ ListenerStep
    \/ RawStep
    \/ \E c \in Raw : net_reset(c)

SpecListener == Init /\ [][NextListener]_vars

(* --------------------- peers that send text lines --------------------- *)
\* a listener started on any of the addresses
InitLines == InitRoles(Conns) /\ \E a \in Addresses : InitServer(<<"server", a>>)

\* foreign peers connect, send lines of text or a fragment, and close; the
\* listener serves them
NextLines ==
    \/ run_server_start
    \/ \E c \in Raw : raw_connect(c)
    \/ \E c \in Raw : \E chunk \in LineChunks : raw_send(c, chunk)
    \/ \E c \in Raw : raw_close(c)
    \/ \E c \in Raw : serve_forever_accept(c)
    \/ \E c \in Raw : handle_client_start(c)
    \/ \E c \in Raw : handle_client_readline(c)
    \/ \E c \in Raw : handle_client_drain(c)
    \/ \E c \in Raw : handle_client_sleep(c)
    \/ \E c \in Raw : handle_client_wait_closed(c)

SpecLines == InitLines /\ [][NextLines]_vars

(* ------------------------ a crowd of peers ---------------------------- *)
\* the peers of the crowd connect one after the other
crowd_connect(c) ==
    /\ IF c = 1 THEN TRUE ELSE link[c - 1] # "none"
    /\ raw_connect(c)

\* the listening socket hands connections over in the order they were made
crowd_accept(c) ==
    /\ IF c = 1 THEN TRUE ELSE spc[c - 1] # "none"
    /\ serve_forever_accept(c)

\* a listener on the default endpoint and MAX_CLIENTS + 1 peers
InitCrowd == InitRoles(Crowd) /\ InitServer(<<"server">>)

\* the peers connect and stay; the listener accepts them and starts their
\* sessions, which then wait for a line
NextCrowd ==
    \/ run_server_start
    \/ \E c \in Crowd : crowd_connect(c)
    \/ \E c \in Crowd : crowd_accept(c)
    \/ \E c \in Crowd : handle_client_start(c)

SpecCrowd == InitCrowd /\ [][NextCrowd]_vars

(* -------------------------------- main -------------------------------- *)
\* line 179: mode in ['server', 'client']
ValidMode(mode) == mode \in {"server", "client"}

\* main, lines 171-187, up to the call of asyncio.run: with no argument it
\* prints the usage and exits 1; int(sys.argv[3]) runs before the mode is
\* looked at and its ValueError is caught nowhere (traceback, exit status
\* 1); an unknown mode prints the usage and exits 1
main ==
    /\ mpc = "main"
    /\ IF Len(argv) < 1
       THEN /\ mpc' = "usage"
            /\ mexit' = 1
            /\ server_address' = server_address
       ELSE IF Len(argv) > 2 /\ ~IntParses(argv[3])
       THEN /\ mpc' = "traceback"
            /\ mexit' = 1
            /\ server_address' = server_address
       ELSE IF ~ValidMode(argv[1])
       THEN /\ mpc' = "usage"
            /\ mexit' = 1
            /\ server_address' = server_address
       ELSE /\ mpc' = IF argv[1] = "server" THEN "run_server" ELSE "run_client"
            /\ mexit' = mexit
            /\ server_address' = IF argv[1] = "server" THEN AddressArg(argv)
                                  ELSE server_address
    /\ UNCHANGED <<argv, srvVars, sessVars, netVars, cliVars, rawSent>>

\* line 185: asyncio.run(self.run_server(ipv6_address, port))
main_run_server == mpc = "run_server" /\ run_server_start

\* line 187: asyncio.run(self.run_client(ipv6_address, port))
main_run_client == mpc = "run_client" /\ run_client_connect

\* one invocation of the program with any short command line
InitMain ==
    /\ InitRoles(Conns)
    /\ argv \in SeqsUpTo(ArgTokens, MaxArgs)
    /\ mpc = "main"
    /\ mexit = -1
    /\ server_address = "none"

NextMain ==
    \/ main
    \/ main_run_server
    \/ main_run_client

SpecMain == InitMain /\ [][NextMain]_vars

(* ------------------------------- claims ------------------------------- *)
\* the connector's readline is about to report a clean end of stream
ConnectorAtEof ==
    /\ cpc = "read"
    /\ link[CONNECTOR] = "up"
    /\ s2cFin[CONNECTOR]
    /\ ReadLine(s2c[CONNECTOR], s2cFin[CONNECTOR]) = <<>>

\* C1: when the connector's read of a response reports a clean end of
\* stream, the connector aborts: the step that takes the empty result goes
\* to the release of the connection, logs no "Server response" and no
\* "Sent to server" line, makes no pause and writes nothing more.
C1_AbortsOnClosure ==
    [][ (ConnectorAtEof /\ cpc' # "read")
          => /\ cpc' = "wait_closed"
             /\ clog'.response = clog.response
             /\ clog'.sent = clog.sent
             /\ cpause' = cpause
             /\ c2s' = c2s ]_vars

\* C2: a fatal setup error (the listener cannot bind, the connector cannot
\* connect) is reported, enters no accept loop and no conversation, and the
\* process exits with a non-zero status.
C2_FatalSetupExitsNonZero ==
    /\ srvLog.error > 0 =>
         /\ srv = "exited" /\ srvLog.started = 0
         /\ \A c \in Conns : spc[c] = "none"
         /\ srvExit # 0
    /\ creason = "connect_failed" =>
         /\ cpc = "exited" /\ clog.connected = 0 /\ clog.sent = 0
         /\ cliExit # 0

\* C3: after a successful connect the connector closes its connection
\* exactly once on every exit path: it is open (never closed) while the
\* conversation runs, closed once when run_client has returned, and never
\* closed twice.
C3_ConnectorClosesOnce ==
    /\ cclose <= 1
    /\ cpc \in {"drain", "read", "sleep"} => cclose = 0
    /\ cpc \in {"wait_closed", "exited"} /\ clog.connected = 1 =>
         cclose = 1 /\ c2sFin[CONNECTOR]
    /\ clog.connected = 0 => cclose = 0

\* the conversation was cut by a lost connection and run_client has returned
C3_Witness == cpc = "exited" /\ creason = "ioerror" /\ cclose = 1

\* C4: every listener session closes its accepted connection exactly once
\* on every exit path, a failure at session start included: a session that
\* has ended has closed its connection once.
C4_SessionClosesOnEveryExit ==
    \A c \in Conns : spc[c] \in {"done", "failed"} => sclose[c] = 1

\* C5: the connector makes at most 20 write/read iterations; a pause is
\* always followed by another iteration (none after the 20th), and a
\* conversation that ran all 20 iterations made exactly 19 pauses.
C5_IterationsAndPauses ==
    /\ i < 20 /\ clog.sent <= 20 /\ clog.response <= 20
    /\ cpc = "sleep" => (i < 19 /\ cpause = i + 1)
    /\ cpc \in {"drain", "read"} => cpause = i
    /\ creason = "completed" => (clog.sent = 20 /\ clog.response = 20 /\ cpause = 19)

\* a conversation that ran to the end of its loop
C5_Witness == cpc = "exited" /\ creason = "completed" /\ cpause = 19

\* the step in which the readline of session c returns a result
SessionReads(c) ==
    /\ srv \in Running
    /\ spc[c] = "read"
    /\ link[c] = "up"
    /\ CanReadLine(c2s[c], c2sFin[c])
    /\ spc'[c] # "read"

\* the step in which the readline of session c raises
SessionReadFails(c) ==
    /\ srv \in Running
    /\ spc[c] = "read"
    /\ link[c] = "reset"
    /\ spc'[c] # "read"

\* C6 as claimed: every line a session receives, whatever its content, gets
\* exactly one response, and the session goes on servicing lines.
C6_EveryLineAnswered ==
    [][ \A c \in Conns :
          (SessionReads(c) /\ ReadLine(c2s[c], c2sFin[c]) # <<>>)
            => /\ slog'[c].responded = slog[c].responded + 1
               /\ spc'[c] = "drain" ]_vars

\* C6 as amended: every received line that decodes as UTF-8 gets exactly one
\* response, written before the session suspends again, and the session
\* goes on; a line that does not decode ends the session without a
\* response.  A session that ran leaves its loop only on end of stream, an
\* I/O error, an undecodable line or the cancellation of its task.
C6_DecodableLineAnswered ==
    /\ [](\A c \in Conns :
            /\ slog[c].responded = slog[c].received
            /\ spc[c] \in {"wait_closed", "done"} =>
                 sreason[c] \in {"eof", "ioerror", "decode", "cancelled", "never_started"})
    /\ [][ \A c \in Conns :
             (SessionReads(c) /\ ReadLine(c2s[c], c2sFin[c]) # <<>>)
               => IF Decodes(ReadLine(c2s[c], c2sFin[c]))
                  THEN /\ slog'[c].responded = slog[c].responded + 1
                       /\ s2cFin'[c] = s2cFin[c]
                       /\ spc'[c] = "drain"
                  ELSE /\ slog'[c].responded = slog[c].responded
                       /\ sreason'[c] = "decode"
                       /\ spc'[c] = "wait_closed" ]_vars

\* a session answered a line and is back at its next read
C6_Witness ==
    \E c \in Raw : /\ slog[c].received = 1 /\ slog[c].responded = 1
                   /\ spc[c] = "read" /\ sreason[c] = "none"

\* C7: when a session's read reports the end of the stream or fails, the
\* session writes no response in that step nor later: it logs the
\* disconnect (or the error), leaves the loop and closes the connection.
C7_NoResponseAfterEnd ==
    /\ [][ \A c \in Conns :
             (SessionReads(c) /\ ReadLine(c2s[c], c2sFin[c]) = <<>>)
               => /\ slog'[c].responded = slog[c].responded
                  /\ s2c'[c] = s2c[c]
                  /\ slog'[c].disconnected = slog[c].disconnected + 1
                  /\ slog'[c].error = slog[c].error
                  /\ sclose'[c] = sclose[c] + 1
                  /\ spc'[c] = "wait_closed" ]_vars
    /\ [][ \A c \in Conns :
             SessionReadFails(c)
               => /\ slog'[c].responded = slog[c].responded
                  /\ s2c'[c] = s2c[c]
                  /\ slog'[c].error = slog[c].error + 1
                  /\ sclose'[c] = sclose[c] + 1
                  /\ spc'[c] = "wait_closed" ]_vars
    /\ [][ \A c \in Conns :
             sreason[c] \in {"eof", "ioerror"}
               => /\ slog'[c].responded = slog[c].responded
                  /\ s2c'[c] = s2c[c]
                  /\ spc'[c] \in {"wait_closed", "done"} ]_vars

\* a session answered a line, then saw the peer's clean close and ended
C7_Witness ==
    \E c \in Raw : /\ sreason[c] = "eof" /\ spc[c] = "done"
                   /\ slog[c].responded = 1 /\ slog[c].disconnected = 1
                   /\ sclose[c] = 1

\* C8: an I/O error in one session ends only that session: the step that
\* logs it leaves every other session and the listener as they were, and
\* the listener still accepts a connection that is waiting.
C8_ErrorStaysInSession ==
    /\ [][ \A c \in Conns :
             slog'[c].error > slog[c].error
               => /\ srv' = srv
                  /\ \A d \in Conns \ {c} :
                       /\ spc'[d] = spc[d] /\ sreason'[d] = sreason[d]
                       /\ sclose'[d] = sclose[d] /\ slog'[d] = slog[d]
                       /\ s2cFin'[d] = s2cFin[d] ]_vars
    /\ [](\A c, d \in Conns :
            (sreason[c] = "ioerror" /\ srv = "serving"
               /\ spc[d] = "none" /\ link[d] = "up")
              => ENABLED serve_forever_accept(d))

\* a session ended by an I/O error while its sibling is being serviced and
\* the listener serves on
C8_Witness ==
    \E c, d \in Raw :
        /\ c # d /\ sreason[c] = "ioerror" /\ spc[c] = "done"
        /\ spc[d] = "drain" /\ sreason[d] = "none"
        /\ srv = "serving"

\* nothing was injected into the exchange: the connection is up and
\* neither process was interrupted
NoFailure ==
    link[CONNECTOR] = "up" /\ srv = "serving" /\ creason # "interrupted"

\* C9: with one listener and one connector and no injected failure, when
\* the connector has finished its log holds exactly 20 "Sent to server" and
\* 20 "Server response" lines, and the listener's log holds exactly 20
\* "Received from client" lines and no error entry, also after the session
\* has seen the connector's close.
C9_TwentyExchanges ==
    (NoFailure /\ cpc = "exited") =>
        /\ creason = "completed"
        /\ clog.sent = 20 /\ clog.response = 20 /\ clog.error = 0
        /\ slog[CONNECTOR].received = 20 /\ slog[CONNECTOR].responded = 20
        /\ slog[CONNECTOR].error = 0 /\ srvLog.error = 0
        /\ spc[CONNECTOR] = "done" => sreason[CONNECTOR] = "eof"

\* the connector has finished and the session has seen its close
C9_Witness ==
    /\ NoFailure /\ cpc = "exited" /\ clog.response = 20
    /\ spc[CONNECTOR] = "done" /\ slog[CONNECTOR].disconnected = 1

\* C10: an interrupt triggers orderly teardown: when the interrupted
\* listener process has terminated, every connection it had accepted was
\* closed by its session's release path; an interrupted connector has
\* closed its connection when its process has terminated.
C10_OrderlyTeardown ==
    /\ (srv = "exited" /\ srvLog.shutdown > 0) =>
         \A c \in Conns : spc[c] # "none" => sclose[c] = 1
    /\ (cpc = "exited" /\ creason = "interrupted") => cclose = 1

\* C11: the exit status of a process is 0 exactly when it ended by graceful
\* completion (the connector finished its conversation) or by a user
\* interrupt; a run that ends in a fatal bind or connect failure does not
\* exit with status 0.
C11_ExitStatus ==
    /\ srv = "exited" => (srvExit = 0 <=> srvLog.shutdown > 0)
    /\ cpc = "exited" => (cliExit = 0 <=> creason \in {"completed", "interrupted"})
    /\ srvLog.error > 0 => srvExit # 0
    /\ creason = "connect_failed" => cliExit # 0

\* session c is suspended at an await of its loop: in readline, drain or sleep
Suspended(c) == spc[c] \in {"read", "drain", "sleep"}

\* C12: a stalled peer stalls only its own session: while a session is
\* suspended, the accept loop still accepts a waiting connection and every
\* other session can take its next step (start, take a line that has
\* arrived, finish its flush, finish its pause), and a step of another
\* session leaves the suspended one as it was.
C12_StallStaysInSession ==
    /\ [](\A c, d \in Conns :
            (c # d /\ Suspended(c) /\ srv = "serving") =>
              /\ (spc[d] = "none" /\ link[d] \in {"up", "reset"})
                    => ENABLED serve_forever_accept(d)
              /\ spc[d] = "start" => ENABLED handle_client_start(d)
              /\ (spc[d] = "read" /\ link[d] = "up" /\ CanReadLine(c2s[d], c2sFin[d]))
                    => ENABLED handle_client_readline(d)
              /\ spc[d] = "drain" => ENABLED handle_client_drain(d)
              /\ spc[d] = "sleep" => ENABLED handle_client_sleep(d))
    /\ [][ \A c, d \in Conns :
             (c # d /\ Suspended(c) /\ srv' = "serving" /\ spc'[d] # spc[d])
               => /\ spc'[c] = spc[c] /\ slog'[c] = slog[c]
                  /\ sclose'[c] = sclose[c] /\ s2cFin'[c] = s2cFin[c] ]_vars

\* a session waits for a line from a peer that has sent nothing, while its
\* sibling was accepted, answered a line and is back at its read
C12_Witness ==
    \E c, d \in Raw :
        /\ c # d /\ srv = "serving"
        /\ spc[c] = "read" /\ link[c] = "up" /\ c2s[c] = <<>> /\ ~c2sFin[c]
        /\ slog[c].received = 0
        /\ spc[d] = "read" /\ slog[d].responded = 1

\* C13: an invocation whose mode argument is missing or is not server or
\* client, whatever the other arguments are, prints the usage text and exits
\* with a non-zero status, and neither role is started.
C13_InvalidModeUsage ==
    (mpc # "main" /\ (Len(argv) = 0 \/ ~ValidMode(argv[1])))
      => /\ mpc = "usage"
         /\ mexit # 0 /\ mexit # -1
         /\ srv = "init" /\ cpc = "init"

\* the connector and its session both wait for a line and none is on its way
BothWait ==
    /\ cpc = "read" /\ spc[CONNECTOR] = "read" /\ link[CONNECTOR] = "up"
    /\ ~CanReadLine(s2c[CONNECTOR], s2cFin[CONNECTOR])
    /\ ~CanReadLine(c2s[CONNECTOR], c2sFin[CONNECTOR])

\* C14: under fair scheduling a connector that has connected to a listener
\* that keeps serving eventually returns from run_client (its bounded loop
\* left, its connection closed), the session serving it then eventually
\* observes the closure and ends, and the two sides are never both waiting
\* for the other.
C14_ConnectorTerminates ==
    /\ []~BothWait
    /\ (clog.connected = 1) ~> (cpc = "exited" \/ srv # "serving")
    /\ (cpc = "exited" /\ clog.connected = 1)
          ~> (spc[CONNECTOR] \in {"done", "failed"} \/ srv # "serving")

\* the connector ran its loop to the end and returned, and its session saw
\* the end of the stream and is over, the listener still serving
C14_Witness ==
    /\ cpc = "exited" /\ creason = "completed" /\ cclose = 1
    /\ spc[CONNECTOR] = "done" /\ sreason[CONNECTOR] = "eof"
    /\ sclose[CONNECTOR] = 1 /\ srv = "serving"

\* C15: on a connection the operations alternate and never overlap: the
\* connector writes greeting k+1 only after it has read response k, the
\* session writes a response only in the step in which it received a line,
\* so at most one greeting and at most one response are in flight and the
\* session has never answered more lines than it received, nor received
\* more lines than the connector wrote.
C15_StrictAlternation ==
    /\ [](/\ Len(c2s[CONNECTOR]) <= Len(Greeting)
          /\ Len(s2c[CONNECTOR]) <= Len(Response(server_address))
          /\ cpc \in {"drain", "read"} => clog.response = i
          /\ cpc = "sleep" => clog.response = i + 1
          /\ cpc \in {"drain", "read", "sleep"} => slog[CONNECTOR].received <= i + 1
          /\ \A c \in Conns : slog[c].responded <= slog[c].received)
    /\ [][ \A c \in Conns :
             (slog'[c].responded # slog[c].responded \/ Len(s2c'[c]) > Len(s2c[c]))
               => /\ spc[c] = "read" /\ spc'[c] = "drain"
                  /\ slog'[c].received = slog[c].received + 1
                  /\ slog'[c].responded = slog[c].responded + 1 ]_vars

\* the second exchange is under way: the session has taken the second
\* greeting and its response is in flight to the connector, which reads
C15_Witness ==
    /\ cpc = "read" /\ i = 1
    /\ spc[CONNECTOR] = "drain" /\ slog[CONNECTOR].received = 2
    /\ s2c[CONNECTOR] = Response(server_address) /\ c2s[CONNECTOR] = <<>>

\* the sessions that are being serviced: handle_client is in its loop
OpenSessions == {c \in DOMAIN spc : spc[c] \in {"read", "drain", "sleep"}}

\* C16: the listener services at most MAX_CLIENTS sessions at a time: in no
\* reachable state are more than 10 sessions open.
C16_AtMostMaxClients == Cardinality(OpenSessions) <= MAX_CLIENTS

\* the response line for the address given on the listener's command line
ExpectedResponse == <<"R", AddressArg(argv), NL>>

\* C17: for every line of text a peer sends, the empty line and a line of
\* blanks included, the session writes the response line that carries the
\* address the listener was configured with; it is the same for every line
\* and every peer.
C17_ResponseNamesServerAddress ==
    /\ [](\A c \in Conns : swrote[c] \in {<<>>, ExpectedResponse})
    /\ [][ \A c \in Conns :
             (SessionReads(c) /\ IndexOf(c2s[c], NL, 1) > 0)
               => /\ sdata'[c] = ReadLine(c2s[c], c2sFin[c])
                  /\ swrote'[c] = ExpectedResponse
                  /\ slog'[c].responded = slog[c].responded + 1
                  /\ spc'[c] = "drain" ]_vars

\* a listener on another address than the default one has answered a line
\* of blanks
C17_Witness ==
    \E c \in Raw :
        /\ server_address = "fe80::2"
        /\ sdata[c] = <<" ", NL>> /\ smsg[c] = <<>>
        /\ swrote[c] = <<"R", "fe80::2", NL>>
        /\ spc[c] = "sleep"

\* the task of session c is cancelled in this step
SessionCancelled(c) == sreason[c] # "cancelled" /\ sreason'[c] = "cancelled"

\* C18: in a session every response that was written and flushed is
\* followed by one pause, and the next read starts only when that pause is
\* over; a pause begins only after a flush.  A read that reported the end
\* of the stream or an error is followed by no pause and no read.
C18_OnePausePerResponse ==
    [][ \A c \in Conns :
          /\ (spc'[c] = "read" /\ spc[c] # "read") => spc[c] \in {"start", "sleep"}
          /\ (spc'[c] = "sleep" /\ spc[c] # "sleep")
                => (spc[c] = "drain" /\ link[c] = "up")
          /\ (spc[c] = "drain" /\ spc'[c] # "drain" /\ link[c] = "up")
                => (spc'[c] = "sleep" \/ SessionCancelled(c))
          /\ (spc[c] = "sleep" /\ spc'[c] # "sleep")
                => (spc'[c] = "read" \/ SessionCancelled(c))
          /\ (SessionReads(c) /\ ReadLine(c2s[c], c2sFin[c]) = <<>>)
                => spc'[c] = "wait_closed"
          /\ SessionReadFails(c) => spc'[c] = "wait_closed"
          /\ spc[c] \in {"wait_closed", "done", "failed"}
                => spc'[c] \notin {"read", "drain", "sleep"} ]_vars

\* a session is in the pause that follows its second response, the
\* connector in the pause that follows its second read
C18_Witness ==
    /\ spc[CONNECTOR] = "sleep" /\ slog[CONNECTOR].responded = 2
    /\ cpc = "sleep" /\ cpause = 2

\* C19: in every state of a connector conversation the number of "Sent to
\* server" lines exceeds the number of "Server response" lines by 0 or 1:
\* while the connector waits for a response the greeting of that iteration
\* is the one line ahead, and when it flushes a greeting or pauses every
\* greeting logged so far has its response logged.
C19_SentMinusResponse ==
    /\ clog.sent - clog.response \in {0, 1}
    /\ cpc = "read" => clog.sent = clog.response + 1
    /\ cpc \in {"drain", "sleep"} => clog.sent = clog.response
    /\ cpc \in {"drain", "read"} => clog.sent + clog.response \in {2 * i, 2 * i + 1}

\* the connector has logged its third greeting and waits for the response
C19_Witness == cpc = "read" /\ clog.sent = 3 /\ clog.response = 2

\* the readline of session c is about to return a last fragment that no
\* newline ends: the peer has closed and what it left holds no newline
FragmentAtEnd(c) ==
    /\ c2sFin[c]
    /\ c2s[c] # <<>>
    /\ IndexOf(c2s[c], NL, 1) = 0

\* C20: when the peer has closed after a last fragment without a newline,
\* the session's read returns the fragment and the session treats it as a
\* message: it logs it and writes one response, and does not yet log a
\* disconnect or close; the stream is then empty, and the read that follows
\* reports the end of the stream, after which the session logs the
\* disconnect and closes the connection without another response.
C20_FinalFragmentIsMessage ==
    /\ [][ \A c \in Conns :
             (SessionReads(c) /\ FragmentAtEnd(c))
               => /\ sdata'[c] = c2s[c]
                  /\ smsg'[c] = Strip(c2s[c])
                  /\ slog'[c].received = slog[c].received + 1
                  /\ slog'[c].responded = slog[c].responded + 1
                  /\ swrote'[c] = ExpectedResponse
                  /\ slog'[c].disconnected = slog[c].disconnected
                  /\ sclose'[c] = sclose[c]
                  /\ spc'[c] = "drain"
                  /\ c2s'[c] = <<>> /\ c2sFin'[c] ]_vars
    /\ [][ \A c \in Conns :
             (SessionReads(c) /\ c2s[c] = <<>>)
               => /\ sdata'[c] = <<>>
                  /\ slog'[c].disconnected = slog[c].disconnected + 1
                  /\ slog'[c].received = slog[c].received
                  /\ slog'[c].responded = slog[c].responded
                  /\ sclose'[c] = sclose[c] + 1
                  /\ spc'[c] = "wait_closed" ]_vars
    /\ [](\A c \in Conns :
            (c2sFin[c] /\ c2s[c] = <<>> /\ spc[c] \in {"drain", "sleep"})
              => slog[c].disconnected = 0 /\ sclose[c] = 0)

\* the only bytes a peer sent were the fragment "b"; the session logged it
\* as a message, answered it, and its next read saw the end of the stream
C20_Witness ==
    \E c \in Raw :
        /\ rawSent = 1 /\ smsg[c] = <<"b">> /\ swrote[c] = ExpectedResponse
        /\ slog[c].received = 1 /\ slog[c].responded = 1
        /\ sdata[c] = <<>> /\ sreason[c] = "eof"
        /\ slog[c].disconnected = 1 /\ sclose[c] = 1 /\ spc[c] = "done"

====
